---- MODULE Spec2Model ----
(***************************************************************************)
(* A model of mlpack's KMeans::Cluster (methods/kmeans/kmeans_impl.hpp):   *)
(* validation of the initial guess, initial centroids, the convergence     *)
(* loop over two centroid matrices, and the final assignment pass.         *)
(*                                                                         *)
(* The Lloyd step, the initial partitioner, the empty-cluster policy and   *)
(* the metric are template parameters of KMeans; they are modelled by      *)
(* their contracts, with nondeterministic results.                         *)
(***************************************************************************)
EXTENDS Integers, Sequences, FiniteSets, TLC

\* ------------------------------------------------------------------------
\* Bounds of the model.
\* ------------------------------------------------------------------------
MaxN == 2       \* largest data.n_cols
MaxK == 2       \* largest number of clusters requested
MaxM == 2       \* largest maxIterations given to the constructor
DataRows == 1   \* data.n_rows of every dataset
MaxNonZero == 2 \* most non-zero entries of a matrix V
MaxBins == 2    \* largest bins of a HoeffdingNumericSplit
MaxBefore == 2  \* largest observationsBeforeBinning

\* The iteration counter is a size_t; a run with maxIterations = 0 may go on
\* for ever, so the model stops starting new passes at IterCap.
IterCap == MaxM + 1

\* ------------------------------------------------------------------------
\* IEEE doubles, as far as the code looks at them: finite values (in units
\* of 1e-6), NaN and the two infinities.
\* ------------------------------------------------------------------------
Fin(x) == [k |-> "fin", v |-> x]
NaN == [k |-> "nan", v |-> 0]
PosInf == [k |-> "inf", v |-> 1]
NegInf == [k |-> "inf", v |-> -1]
Undef == [k |-> "undef", v |-> 0]

isnan(x) == x.k = "nan"
isinf(x) == x.k = "inf"

\* x < y on doubles: false as soon as one side is NaN.
Lt(x, y) ==
  /\ ~isnan(x)
  /\ ~isnan(y)
  /\ CASE isinf(x) /\ isinf(y) -> x.v < y.v
       [] isinf(x) -> x.v < 0
       [] isinf(y) -> y.v > 0
       [] OTHER -> x.v < y.v

Gt(x, y) == Lt(y, x)

\* x <= y on doubles.
Le(x, y) == Lt(x, y) \/ (~isnan(x) /\ ~isnan(y) /\ x = y)

\* while (cNorm > 1e-5 ...): the convergence threshold, 1e-5.
Threshold == Fin(10)
\* cNorm = 1e-4; // Keep iterating.
Sentinel == Fin(100)

\* Residuals a Lloyd step may return.
Residuals == {Fin(10), Fin(11), NaN, PosInf, NegInf}
\* Distances metric.Evaluate may return.  (A NaN distance goes through the
\* scan of the final pass as +Inf does: no "distance < minDistance" with it
\* is true.)
Distances == {Fin(0), Fin(1), PosInf}

\* ------------------------------------------------------------------------
\* Matrices: shape and an abstract content.  The content is named by where
\* it comes from: "caller", "partitioner", "derived" (from assignments),
\* "uninit", "empty", "garbage" (after an access out of bounds), "new" (left
\* by the latest Lloyd step; ec = 1 once the empty-cluster policy changed it)
\* and "old" (whatever the latest Lloyd step read).
\* ------------------------------------------------------------------------
Mat(r, c, by) ==
  [n_rows |-> r, n_cols |-> c, val |-> [by |-> by, ec |-> 0]]

\* arma::mat centroidsOther; (a default-constructed matrix)
EmptyMat == Mat(0, 0, "empty")

\* The matrix a Lloyd step has read: the same matrix, now the old centroids.
Read(m) == [m EXCEPT !.val = [by |-> "old", ec |-> 0]]

RECURSIVE SumTo(_, _)
SumTo(f, n) == IF n = 0 THEN 0 ELSE f[n] + SumTo(f, n - 1)

VARIABLES
  maxIterations,           \* KMeans::maxIterations
  pc,                      \* position in the running call
  entry,                   \* the overload the caller invoked
  data,                    \* the dataset (its shape)
  clusters,                \* the clusters argument
  initialAssignmentGuess,  \* arguments of the assignments overload
  initialCentroidGuess,
  initialGuess,            \* argument of Cluster(data, clusters, centroids, .)
  centroids,               \* the centroids argument
  centroidsOther,          \* the second centroid matrix
  assignments,             \* the assignments argument
  counts,                  \* arma::Col<size_t> counts
  iteration,
  cNorm,
  i,                       \* index of the running for loop
  warned,                  \* messages sent to Log::Warn
  fatal,                   \* the check that sent a message to Log::Fatal
  \* history of the call, for stating properties
  centroidsIn,             \* the caller's centroids and assignments as they
  assignmentsIn,           \* were at the call, kept until validation is over
  wrongCentroids,          \* the call gave a centroid guess of a wrong shape
  wrongAssignments,        \* the call gave an assignment guess of a wrong size
  rawNorm,                 \* what the last Iterate returned
  iterateCalls,            \* calls of lloydStep.Iterate
  partitionerCalls,        \* calls of partitioner.Cluster
  shapes,                  \* what the partitioner was asked for: "centroids"
                           \* or "assignments"
  derivations,             \* times centroids were computed from assignments
  emptyCalls,              \* calls of EmptyCluster in the current pass
  reseeds,                 \* 1 when EmptyCluster changed the new centroids
  called,                  \* calls of EmptyCluster in the current pass, by
                           \* cluster
  atVisit,                 \* the clusters that were empty when the for loop
                           \* of the current pass came to them
  emptied,                 \* the clusters that were empty at some moment of
                           \* the current pass, after its Lloyd step
  stepArgs,                \* the matrices the latest Iterate read and wrote
  policyArgs,              \* the arguments of the EmptyCluster calls of the
                           \* current pass
  dist                     \* the distances evaluated in the final pass

\* Two calls in a row on one dataset, with a naive Lloyd step and a policy
\* that leaves empty clusters alone.
VARIABLES
  trial,                   \* the dataset and the centroid guess of the calls
  first,                   \* what the first call returned
  second                   \* what the second call returned

\* A MaxIterationTermination, on its own or wrapped in a
\* CompleteIncrementalTermination.
VARIABLES
  tPolicy,                 \* MaxIterationTermination: maxIterations, iteration
  tWarned,                 \* messages its constructor sent to Log::Warn
  tAnswers,                \* what its IsConverged returned, call by call
  tModified,               \* a member was set through Iteration() or
                           \* MaxIterations()
  wrapper,                 \* CompleteIncrementalTermination:
                           \* incrementalIndex, iteration
  wStatus,                 \* "raw" before Initialize, "ready" after it,
                           \* "stopped" after a division by zero
  wAnswers                 \* the calls of its IsConverged since Initialize

\* A HoeffdingNumericSplit.
VARIABLES
  observations,            \* the values kept until the bins are made
  labels,                  \* and their labels
  bins,
  observationsBeforeBinning,
  samplesSeen,
  splitPoints,
  sufficientStatistics,    \* one row per class, one column per bin
  trained,                 \* the arguments of the Train calls, in call order
  thrown,                  \* the latest call ended with an exception
  returned                 \* what the latest call gave back to its caller

kmeansVars == <<maxIterations, pc, entry, data, clusters,
                initialAssignmentGuess, initialCentroidGuess, initialGuess,
                centroids, centroidsOther, assignments, counts, iteration,
                cNorm, i, warned, fatal, centroidsIn, assignmentsIn,
                wrongCentroids, wrongAssignments, rawNorm, iterateCalls,
                partitionerCalls, shapes, derivations, emptyCalls, reseeds, called,
                atVisit, emptied, stepArgs, policyArgs, dist>>
rerunVars == <<trial, first, second>>
terminationVars == <<tPolicy, tWarned, tAnswers, tModified, wrapper, wStatus,
                     wAnswers>>
split == <<observations, labels, bins, observationsBeforeBinning, samplesSeen,
           splitPoints, sufficientStatistics>>
hoeffdingVars == <<split, trained, thrown, returned>>
\* What a call of Cluster on its own leaves alone.
otherVars == <<rerunVars, terminationVars, hoeffdingVars>>
vars == <<kmeansVars, otherVars>>

config == <<maxIterations>>
args == <<entry, data, clusters, initialAssignmentGuess, initialCentroidGuess,
          wrongCentroids, wrongAssignments>>
callerIn == <<centroidsIn, assignmentsIn>>
passGhosts == <<called, atVisit, emptied>>
bufferGhosts == <<stepArgs, policyArgs>>
loopState == <<centroidsOther, counts, iteration, cNorm, i, rawNorm,
               iterateCalls, emptyCalls, reseeds>>

\* ------------------------------------------------------------------------
\* KMeans::KMeans: stores its arguments, nothing else.
\* ------------------------------------------------------------------------
KMeans(m) == [maxIterations |-> m, warned |-> {}]

\* No call has been made on a dataset of points.
NoTrial == [points |-> <<>>, guess |-> <<>>]
NoRun == [centroids |-> <<>>, iterations |-> 0, cNorm |-> Undef,
          passes |-> <<>>]
RerunIdle == trial = NoTrial /\ first = NoRun /\ second = NoRun

\* No termination policy is in use.
Unset == [incrementalIndex |-> "unset", iteration |-> "unset"]
TerminationIdle ==
  /\ tPolicy = [maxIterations |-> 0, iteration |-> 0]
  /\ tWarned = {}
  /\ tAnswers = <<>>
  /\ tModified = FALSE
  /\ wrapper = Unset
  /\ wStatus = "raw"
  /\ wAnswers = <<>>

\* No Lloyd step has run in the call.
NoStep == [read |-> "none", wrote |-> "none"]

\* No call has given anything back.
NoReturn == [call |-> "none"]

\* No HoeffdingNumericSplit is in use.
HoeffdingIdle ==
  /\ observations = <<>>
  /\ labels = <<>>
  /\ bins = 0
  /\ observationsBeforeBinning = 0
  /\ samplesSeen = 0
  /\ splitPoints = <<>>
  /\ sufficientStatistics = <<>>
  /\ trained = <<>>
  /\ thrown = FALSE
  /\ returned = NoReturn

KMeansInit(ms) ==
  /\ \E m \in ms :
       /\ maxIterations = KMeans(m).maxIterations
       /\ warned = KMeans(m).warned
  /\ pc = "idle"
  /\ entry = "none"
  /\ data = [n_rows |-> DataRows, n_cols |-> 0]
  /\ clusters = 0
  /\ initialAssignmentGuess = FALSE
  /\ initialCentroidGuess = FALSE
  /\ initialGuess = FALSE
  /\ centroids = EmptyMat
  /\ centroidsOther = EmptyMat
  /\ assignments = <<>>
  /\ counts = <<>>
  /\ iteration = 0
  /\ cNorm = Undef
  /\ i = 0
  /\ fatal = "none"
  /\ centroidsIn = EmptyMat
  /\ assignmentsIn = <<>>
  /\ wrongCentroids = FALSE
  /\ wrongAssignments = FALSE
  /\ rawNorm = Undef
  /\ iterateCalls = 0
  /\ partitionerCalls = 0
  /\ shapes = {}
  /\ derivations = 0
  /\ emptyCalls = 0
  /\ reseeds = 0
  /\ called = <<>>
  /\ atVisit = {}
  /\ emptied = {}
  /\ stepArgs = NoStep
  /\ policyArgs = {}
  /\ dist = <<>>

Init == KMeansInit(0..MaxM) /\ RerunIdle /\ TerminationIdle /\ HoeffdingIdle

\* ------------------------------------------------------------------------
\* What a caller may pass.
\* ------------------------------------------------------------------------
\* A centroid matrix holding an initial guess: any shape.
GuessMats ==
  {Mat(r, c, "caller") : r \in {DataRows, DataRows + 1}, c \in 0..MaxK}

\* An assignment vector holding an initial guess: any length, one index
\* repeated (the index may or may not be a cluster of the call).
GuessAssignments ==
  {[j \in 1..n |-> c] : n \in 0..MaxN, c \in {0, MaxK - 1}}

\* An assignment vector that is only an output: some stale content.
StaleAssignments == {[j \in 1..MaxN |-> 0]}

\* The caller's assignments (an output only, or an initial guess).
CallerAssignments(guess) ==
  IF guess THEN GuessAssignments ELSE StaleAssignments

\* The caller's centroids (an output only, or an initial guess).
CallerCentroids(guess) == IF guess THEN GuessMats ELSE {EmptyMat}

\* A guess of a wrong shape or size, for a dataset of n points and k clusters.
WrongShape(guess, c, k) ==
  guess /\ (c.n_cols # k \/ c.n_rows # DataRows)
WrongSize(guess, a, n) == guess /\ Len(a) # n

\* ------------------------------------------------------------------------
\* The three public overloads are entered.
\* ------------------------------------------------------------------------
\* Cluster(data, clusters, centroids, initialGuess)
CallClusterCentroids ==
  /\ pc = "idle"
  /\ \E n \in 0..MaxN, k \in 0..MaxK, g \in BOOLEAN :
       \E c \in CallerCentroids(g) :
         /\ entry' = "centroids"
         /\ data' = [data EXCEPT !.n_cols = n]
         /\ clusters' = k
         /\ initialGuess' = g
         /\ centroids' = c
         /\ centroidsIn' = c
         /\ wrongCentroids' = WrongShape(g, c, k)
  /\ pc' = "validate"
  /\ UNCHANGED <<config, otherVars, bufferGhosts, passGhosts, initialAssignmentGuess, initialCentroidGuess,
                 assignments, assignmentsIn, wrongAssignments, loopState,
                 warned, fatal, partitionerCalls, shapes, derivations, dist>>

\* Cluster(data, clusters, assignments, centroids, initialAssignmentGuess,
\*         initialCentroidGuess)
CallClusterAssignments ==
  /\ pc = "idle"
  /\ \E n \in 0..MaxN, k \in 0..MaxK, ag \in BOOLEAN, cg \in BOOLEAN :
       \E c \in CallerCentroids(cg), a \in CallerAssignments(ag) :
         /\ entry' = "assignments"
         /\ data' = [data EXCEPT !.n_cols = n]
         /\ clusters' = k
         /\ initialAssignmentGuess' = ag
         /\ initialCentroidGuess' = cg
         /\ centroids' = c
         /\ centroidsIn' = c
         /\ assignments' = a
         /\ assignmentsIn' = a
         /\ wrongCentroids' = WrongShape(cg, c, k)
         /\ wrongAssignments' = WrongSize(ag, a, n)
  /\ pc' = "guess"
  /\ UNCHANGED <<config, otherVars, bufferGhosts, passGhosts, initialGuess, loopState, warned, fatal,
                 partitionerCalls, shapes, derivations, dist>>

\* Cluster(data, clusters, assignments, initialGuess): a local centroid
\* matrix of data.n_rows x clusters, then the overload above.
CallClusterAssignmentsOnly ==
  /\ pc = "idle"
  /\ \E n \in 0..MaxN, k \in 0..MaxK, g \in BOOLEAN :
       \E a \in CallerAssignments(g) :
         /\ entry' = "assignments"
         /\ data' = [data EXCEPT !.n_cols = n]
         /\ clusters' = k
         /\ initialAssignmentGuess' = g
         /\ initialCentroidGuess' = FALSE
         /\ centroids' = Mat(data.n_rows, k, "uninit")
         /\ centroidsIn' = Mat(data.n_rows, k, "uninit")
         /\ assignments' = a
         /\ assignmentsIn' = a
         /\ wrongCentroids' = FALSE
         /\ wrongAssignments' = WrongSize(g, a, n)
  /\ pc' = "guess"
  /\ UNCHANGED <<config, otherVars, bufferGhosts, passGhosts, initialGuess, loopState, warned, fatal,
                 partitionerCalls, shapes, derivations, dist>>

\* ------------------------------------------------------------------------
\* Initial centroids from assignments (the loops at lines 200-211 and
\* 308-319): the mean of the points of each cluster.  centroids.col(a) with
\* a >= clusters is an access out of bounds: Armadillo throws when its
\* bounds checks are compiled in, and the behaviour is undefined otherwise.
\* ------------------------------------------------------------------------
InRange(a, k) == \A j \in DOMAIN a : a[j] < k

CentroidsFromAssignments(a, k) ==
  IF InRange(a, k)
  THEN {[ok |-> TRUE, mat |-> Mat(data.n_rows, k, "derived")]}
  ELSE {[ok |-> FALSE, mat |-> Mat(data.n_rows, k, "garbage")],
        [ok |-> TRUE, mat |-> Mat(data.n_rows, k, "garbage")]}

\* An assignment-producing partitioner: one cluster index per point (no
\* index is a cluster when clusters = 0).
PartitionerAssignments ==
  IF clusters = 0
  THEN {[j \in 1..data.n_cols |-> 0]}
  ELSE [1..data.n_cols -> 0..(clusters - 1)]

\* GivesCentroids<InitialPartitionPolicy>::value: the partitioner the engine
\* is instantiated with returns centroids, or assignments.
GivesCentroids == BOOLEAN

\* A centroid-producing partitioner: data.n_rows x clusters.
PartitionerCentroids == Mat(data.n_rows, clusters, "partitioner")

\* ------------------------------------------------------------------------
\* The assignments overload, before it calls the centroids overload.
\* ------------------------------------------------------------------------
\* Log::Fatal << ... << std::endl ends the call with an exception.
LogFatal(check) ==
  /\ pc' = "fatal"
  /\ fatal' = check

\* A variant of the size check that accepts too short a vector.
AssignmentsSizeOk_atMost == Len(assignments) <= data.n_cols

\* if (assignments.n_elem != data.n_cols) Log::Fatal ...
AssignmentsSizeOk == Len(assignments) = data.n_cols

AssignmentGuess ==
  /\ pc = "guess"
  /\ IF initialAssignmentGuess
     THEN IF ~AssignmentsSizeOk
          THEN /\ LogFatal("assignments")
               /\ UNCHANGED <<centroids, derivations, initialGuess>>
          ELSE \E r \in CentroidsFromAssignments(assignments, clusters) :
                 /\ centroids' = r.mat
                 /\ derivations' = derivations + 1
                 /\ IF r.ok
                    THEN /\ pc' = "validate"
                         /\ initialGuess' =
                              (initialAssignmentGuess \/ initialCentroidGuess)
                    ELSE /\ pc' = "crashed"
                         /\ UNCHANGED initialGuess
                 /\ UNCHANGED fatal
     ELSE /\ pc' = "validate"
          /\ initialGuess' = (initialAssignmentGuess \/ initialCentroidGuess)
          /\ UNCHANGED <<centroids, derivations, fatal>>
  /\ UNCHANGED <<config, otherVars, bufferGhosts, passGhosts, args, callerIn, assignments, loopState, warned,
                 partitionerCalls, shapes, dist>>

\* ------------------------------------------------------------------------
\* Cluster(data, clusters, centroids, initialGuess), lines 163-183.
\* ------------------------------------------------------------------------
\* A variant of the warnings without the one for zero clusters.
Warnings_noZero ==
  IF clusters > data.n_cols THEN {"more clusters than points"} ELSE {}

\* if (clusters > data.n_cols) Log::Warn ... else if (clusters == 0) ...
Warnings ==
  IF clusters > data.n_cols THEN {"more clusters than points"}
  ELSE IF clusters = 0 THEN {"zero clusters"}
  ELSE {}

\* A variant of the validation without the check of the number of columns.
ColsOk_unchecked == TRUE

\* if (centroids.n_cols != clusters) Log::Fatal ...
ColsOk == centroids.n_cols = clusters

\* A variant of the validation without the check of the dimensionality.
RowsOk_unchecked == TRUE

RowsOk == centroids.n_rows = data.n_rows

Validate ==
  /\ pc = "validate"
  /\ warned' = warned \cup Warnings
  /\ IF initialGuess /\ ~ColsOk THEN LogFatal("cols")
     ELSE IF initialGuess /\ ~RowsOk THEN LogFatal("rows")
     ELSE pc' = "init" /\ UNCHANGED fatal
  /\ IF pc' = "init"
     THEN centroidsIn' = EmptyMat /\ assignmentsIn' = <<>>
     ELSE UNCHANGED callerIn
  /\ UNCHANGED <<config, otherVars, bufferGhosts, passGhosts, args, initialGuess, centroids, assignments,
                 loopState, partitionerCalls, shapes, derivations, dist>>

\* A variant of the counts with an entry too many.
Counts_oneMore(k) == [j \in 1..(k + 1) |-> 0]

\* arma::Col<size_t> counts(clusters): one entry per cluster (its content is
\* written by the Lloyd step before anything reads it).
Counts(k) == [j \in 1..k |-> 0]

\* A variant that asks the partitioner whatever the caller gave.
UsesPartitioner_always(guess) == TRUE

\* if (!initialGuess)
UsesPartitioner(guess) == ~guess

\* A variant that skips the loop when the caller gave a guess.
EntersLoop_unlessGuess(guess) == ~guess

\* do { ... } while (...): the body is entered without a test.
EntersLoop(guess) == TRUE

\* Lines 185-222: the partitioner, unless there is an initial guess.
InitialCentroids ==
  /\ pc = "init"
  /\ IF UsesPartitioner(initialGuess)
     THEN /\ partitionerCalls' = partitionerCalls + 1
          /\ \E givesCentroids \in GivesCentroids :
               IF givesCentroids
               THEN /\ centroids' = PartitionerCentroids
                    /\ shapes' = shapes \cup {"centroids"}
                    /\ pc' = IF EntersLoop(initialGuess) THEN "iterate"
                             ELSE "steal"
                    /\ UNCHANGED derivations
               ELSE \E a \in PartitionerAssignments :
                      \E r \in CentroidsFromAssignments(a, clusters) :
                        /\ centroids' = r.mat
                        /\ shapes' = shapes \cup {"assignments"}
                        /\ derivations' = derivations + 1
                        /\ pc' = IF ~r.ok THEN "crashed"
                                 ELSE IF EntersLoop(initialGuess) THEN "iterate"
                                 ELSE "steal"
     ELSE /\ pc' = IF EntersLoop(initialGuess) THEN "iterate" ELSE "steal"
          /\ UNCHANGED <<centroids, partitionerCalls, shapes, derivations>>
  /\ counts' = Counts(clusters)
  /\ iteration' = 0
  /\ UNCHANGED <<config, otherVars, bufferGhosts, passGhosts, args, callerIn, initialGuess, assignments, centroidsOther,
                 cNorm, i, rawNorm, iterateCalls, emptyCalls, reseeds,
                 warned, fatal, dist>>

\* ------------------------------------------------------------------------
\* The convergence loop, lines 224-255.
\* ------------------------------------------------------------------------
\* The clusters without a point.
Zeros(cnt) == {j \in DOMAIN cnt : cnt[j] = 0}

\* What LloydStepType::Iterate leaves in counts: one cluster per point.
CountVectors(k, n) == {c \in [1..k -> 0..n] : k = 0 \/ SumTo(c, k) = n}

\* What LloydStepType::Iterate leaves in newCentroids, given the centroids it
\* read: a matrix of the same shape, written in this pass.
Iterate(old) == Mat(old.n_rows, old.n_cols, "new")

\* A variant that never changes the roles of the two matrices.
WritesOther_always(it) == TRUE

\* if (iteration % 2 == 0) cNorm = lloydStep.Iterate(centroids,
\* centroidsOther, counts); else ... (centroidsOther, centroids, counts);
WritesOther(it) == it % 2 = 0

LloydIterate ==
  /\ pc = "iterate"
  /\ iteration < IterCap
  /\ \E r \in Residuals, c \in CountVectors(Len(counts), data.n_cols) :
       /\ cNorm' = r
       /\ rawNorm' = r
       /\ counts' = c
       /\ emptied' = Zeros(c)
  /\ called' = [j \in 1..clusters |-> 0]
  /\ atVisit' = {}
  /\ IF WritesOther(iteration)
     THEN /\ centroidsOther' = Iterate(centroids)
          /\ centroids' = Read(centroids)
          /\ stepArgs' = [read |-> "centroids", wrote |-> "centroidsOther"]
     ELSE /\ centroids' = Iterate(centroidsOther)
          /\ centroidsOther' = Read(centroidsOther)
          /\ stepArgs' = [read |-> "centroidsOther", wrote |-> "centroids"]
  /\ policyArgs' = {}
  /\ iterateCalls' = iterateCalls + 1
  /\ emptyCalls' = 0
  /\ reseeds' = 0
  /\ i' = 0
  /\ pc' = "empty"
  /\ UNCHANGED <<config, otherVars, args, callerIn, initialGuess, assignments, iteration,
                 warned, fatal, partitionerCalls, shapes, derivations, dist>>

\* What EmptyClusterPolicy::EmptyCluster may do for the cluster e: nothing,
\* or move one point of another cluster into e, which changes newCentroids
\* and counts (and leaves the other cluster empty when that point was its
\* only one).
EmptyCluster(e, new, cnt) ==
  {[mat |-> new, counts |-> cnt, changed |-> 0]} \cup
  {[mat |-> [new EXCEPT !.val.ec = 1],
    counts |-> [cnt EXCEPT ![e] = @ + 1, ![d] = @ - 1],
    changed |-> 1] : d \in {j \in DOMAIN cnt : j # e /\ cnt[j] >= 1}}

\* A variant of the test that also takes a cluster of one point for empty.
IsEmpty_atMostOne(cnt, j) == cnt[j] <= 1

\* if (counts[i] == 0)
IsEmpty(cnt, j) == cnt[j] = 0

\* for (size_t i = 0; i < clusters; i++) if (counts[i] == 0) ...
EmptyClusterLoop ==
  /\ pc = "empty"
  /\ IF i < clusters
     THEN /\ i' = i + 1
          /\ pc' = pc
          /\ atVisit' = IF counts[i + 1] = 0 THEN atVisit \cup {i + 1}
                         ELSE atVisit
          /\ IF IsEmpty(counts, i + 1)
             THEN /\ emptyCalls' = emptyCalls + 1
                  /\ called' = [called EXCEPT ![i + 1] = @ + 1]
                  /\ IF WritesOther(iteration)
                     THEN \E r \in EmptyCluster(i + 1, centroidsOther, counts) :
                            /\ centroidsOther' = r.mat
                            /\ counts' = r.counts
                            /\ emptied' = emptied \cup Zeros(r.counts)
                            /\ reseeds' = IF r.changed = 1 THEN 1 ELSE reseeds
                            /\ policyArgs' = policyArgs \cup
                                 {[old |-> "centroids",
                                   new |-> "centroidsOther",
                                   iteration |-> iteration]}
                            /\ UNCHANGED centroids
                     ELSE \E r \in EmptyCluster(i + 1, centroids, counts) :
                            /\ centroids' = r.mat
                            /\ counts' = r.counts
                            /\ emptied' = emptied \cup Zeros(r.counts)
                            /\ reseeds' = IF r.changed = 1 THEN 1 ELSE reseeds
                            /\ policyArgs' = policyArgs \cup
                                 {[old |-> "centroidsOther",
                                   new |-> "centroids",
                                   iteration |-> iteration]}
                            /\ UNCHANGED centroidsOther
             ELSE UNCHANGED <<centroids, centroidsOther, counts, emptyCalls,
                              reseeds, called, emptied, policyArgs>>
     ELSE /\ pc' = "next"
          /\ UNCHANGED <<i, centroids, centroidsOther, counts, emptyCalls,
                         reseeds, passGhosts, policyArgs>>
  /\ stepArgs' = stepArgs
  /\ UNCHANGED <<config, otherVars, args, callerIn, initialGuess, assignments, iteration, cNorm,
                 rawNorm, iterateCalls, warned, fatal, partitionerCalls, shapes,
                 derivations, dist>>

\* A variant of the clamp that forgets the infinities.
Clamp_nanOnly(x) == IF isnan(x) THEN Sentinel ELSE x

\* if (std::isnan(cNorm) || std::isinf(cNorm)) cNorm = 1e-4;
Clamp(x) == IF isnan(x) \/ isinf(x) THEN Sentinel ELSE x

\* iteration++; ... the clamp of the residual.
NextIteration ==
  /\ pc = "next"
  /\ iteration' = iteration + 1
  /\ cNorm' = Clamp(cNorm)
  /\ called' = <<>>
  /\ atVisit' = {}
  /\ emptied' = {}
  /\ policyArgs' = {}
  /\ stepArgs' = stepArgs
  /\ pc' = "test"
  /\ UNCHANGED <<config, otherVars, args, callerIn, initialGuess, centroids, centroidsOther,
                 assignments, counts, i, rawNorm, iterateCalls, emptyCalls,
                 reseeds, warned, fatal, partitionerCalls, shapes, derivations, dist>>

\* Variants of the loop condition: the cap compared one too late, || for &&,
\* and no cap at all.
KeepIterating_capLate(norm, it, max) == Gt(norm, Threshold) /\ it # max + 1
KeepIterating_or(norm, it, max) == Gt(norm, Threshold) \/ it # max
KeepIterating_noCap(norm, it, max) == Gt(norm, Threshold)
\* A variant that looks at the cap only.
KeepIterating_untilCap(norm, it, max) == it # max

\* while (cNorm > 1e-5 && iteration != maxIterations);
KeepIterating(norm, it, max) == Gt(norm, Threshold) /\ it # max

\* A variant of the test that counts the cap down.
CapAfterTest_countdown(max) == IF max > 0 THEN max - 1 ELSE max

\* The test reads maxIterations and leaves it as it is.
CapAfterTest(max) == max

LoopTest ==
  /\ pc = "test"
  /\ pc' = IF KeepIterating(cNorm, iteration, maxIterations)
           THEN "iterate" ELSE "steal"
  /\ maxIterations' = CapAfterTest(maxIterations)
  /\ UNCHANGED <<otherVars, bufferGhosts, passGhosts, args, callerIn, initialGuess, centroids, centroidsOther,
                 assignments, counts, iteration, cNorm, i, rawNorm,
                 iterateCalls, emptyCalls, reseeds, warned, fatal,
                 partitionerCalls, shapes, derivations, dist>>

\* A variant of the parity test that looks at the incremented counter.
StealsOther_wrongParity(it) == it % 2 = 0

\* if ((iteration - 1) % 2 == 0) centroids.steal_mem(centroidsOther);
StealsOther(it) == (it - 1) % 2 = 0

StealMem ==
  /\ pc = "steal"
  /\ IF StealsOther(iteration)
     THEN /\ centroids' = centroidsOther
          /\ centroidsOther' = EmptyMat
     ELSE UNCHANGED <<centroids, centroidsOther>>
  /\ pc' = "return"
  /\ UNCHANGED <<config, otherVars, bufferGhosts, passGhosts, args, callerIn, initialGuess, assignments, counts, iteration,
                 cNorm, i, rawNorm, iterateCalls, emptyCalls, reseeds, warned,
                 fatal, partitionerCalls, shapes, derivations, dist>>

\* Lines 263-275: the centroids overload returns; its locals are gone, and
\* so is the history of that call;
\* the assignments overload goes on with assignments.set_size(data.n_cols),
\* which leaves the entries unset (-1 here).
ClusterReturn ==
  /\ pc = "return"
  /\ centroidsOther' = EmptyMat
  /\ counts' = <<>>
  /\ iteration' = 0
  /\ cNorm' = Undef
  /\ rawNorm' = Undef
  /\ iterateCalls' = 0
  /\ emptyCalls' = 0
  /\ reseeds' = 0
  /\ i' = 0
  /\ IF entry = "centroids"
     THEN /\ pc' = "done"
          /\ UNCHANGED assignments
     ELSE /\ pc' = "assign"
          /\ assignments' = [j \in 1..data.n_cols |-> -1]
  /\ initialGuess' = FALSE
  /\ partitionerCalls' = 0
  /\ shapes' = {}
  /\ derivations' = 0
  /\ stepArgs' = NoStep
  /\ policyArgs' = {}
  /\ UNCHANGED <<config, otherVars, passGhosts, args, callerIn, centroids, warned, fatal, dist>>

\* ------------------------------------------------------------------------
\* The final assignments, lines 325-346.
\* ------------------------------------------------------------------------
\* The scan over the centroids for one point, d[j + 1] being
\* metric.Evaluate(data.col(i), centroids.col(j)).
RECURSIVE Closest(_, _, _, _)
Closest(d, j, minDistance, closestCluster) ==
  IF j >= Len(d) THEN closestCluster
  ELSE IF Lt(d[j + 1], minDistance)
       THEN Closest(d, j + 1, d[j + 1], j)
       ELSE Closest(d, j + 1, minDistance, closestCluster)

\* double minDistance = infinity; size_t closestCluster = centroids.n_cols;
ClosestCluster(d) == Closest(d, 0, PosInf, Len(d))

\* Log::Assert(closestCluster != centroids.n_cols): with the checks of a
\* debug build a false condition ends the call with an exception; in other
\* builds the call does nothing.
LogAssert(condition) == IF condition THEN {"pass"} ELSE {"throw", "pass"}

FinalAssignments ==
  /\ pc = "assign"
  /\ IF i < data.n_cols
     THEN \E d \in [1..centroids.n_cols -> Distances] :
            \E outcome \in LogAssert(ClosestCluster(d) # centroids.n_cols) :
              /\ dist' = d
              /\ IF outcome = "throw"
                 THEN /\ pc' = "asserted"
                      /\ UNCHANGED <<assignments, i>>
                 ELSE /\ assignments' =
                           [assignments EXCEPT ![i + 1] = ClosestCluster(d)]
                      /\ i' = i + 1
                      /\ pc' = pc
     ELSE /\ pc' = "done"
          /\ dist' = <<>>
          /\ UNCHANGED <<assignments, i>>
  /\ UNCHANGED <<config, otherVars, bufferGhosts, passGhosts, args, callerIn, initialGuess, centroids, centroidsOther, counts,
                 iteration, cNorm, rawNorm, iterateCalls, emptyCalls, reseeds,
                 warned, fatal, partitionerCalls, shapes, derivations>>

Next ==
  \/ CallClusterCentroids
  \/ CallClusterAssignments
  \/ CallClusterAssignmentsOnly
  \/ AssignmentGuess
  \/ Validate
  \/ InitialCentroids
  \/ LloydIterate
  \/ EmptyClusterLoop
  \/ NextIteration
  \/ LoopTest
  \/ StealMem
  \/ ClusterReturn
  \/ FinalAssignments

Spec == Init /\ [][Next]_vars

\* The call is one sequential computation: a step that can be taken is taken.
FairSpec == Spec /\ WF_vars(Next)

\* ------------------------------------------------------------------------
\* Cluster(data, clusters, centroids, true) on points of a line (D = 1),
\* with a naive Lloyd step and a policy that leaves empty clusters alone.
\* ------------------------------------------------------------------------
\* The coordinates of the points and of the centroid guesses: multiples of
\* Spacing, so that the mean of up to four points is a whole number.
Spacing == 12
Coordinates == {0, Spacing, 2 * Spacing, 3 * Spacing}

Abs(x) == IF x < 0 THEN -x ELSE x

\* The cluster of each point: the closest centroid, the first one of several
\* (as in the final pass of the assignments overload).
NearestCentroid(q, c) ==
  ClosestCluster([j \in 1..Len(c) |-> Fin(Abs(q - c[j]))]) + 1

RECURSIVE SumOfCluster(_, _, _, _)
SumOfCluster(points, a, j, n) ==
  IF n = 0 THEN 0
  ELSE (IF a[n] = j THEN points[n] ELSE 0) + SumOfCluster(points, a, j, n - 1)

\* LloydStepType::Iterate(centroids, newCentroids, counts): the mean of each
\* cluster (0 for a cluster without a point), the counts, and the largest
\* move of a centroid as the residual.
NaiveIterate(points, c) ==
  LET a == [n \in 1..Len(points) |-> NearestCentroid(points[n], c)]
      cnt == [j \in 1..Len(c) |->
                Cardinality({n \in 1..Len(points) : a[n] = j})]
      new == [j \in 1..Len(c) |->
                IF cnt[j] = 0 THEN 0
                ELSE SumOfCluster(points, a, j, Len(points)) \div cnt[j]]
      moves == {Abs(new[j] - c[j]) : j \in 1..Len(c)}
  IN [centroids |-> new,
      counts |-> cnt,
      norm |-> Fin(1000000 * (CHOOSE m \in moves : \A x \in moves : x <= m))]

\* Lines 218-261 for these collaborators: the do-while loop from pass
\* `it` on, then steal_mem; `passes` is the state at the end of each pass.
RECURSIVE ClusterLoop(_, _, _, _, _, _)
ClusterLoop(points, cent, other, it, max, passes) ==
  LET r == IF WritesOther(it) THEN NaiveIterate(points, cent)
           ELSE NaiveIterate(points, other)
      cent1 == IF WritesOther(it) THEN cent ELSE r.centroids
      other1 == IF WritesOther(it) THEN r.centroids ELSE other
      norm == Clamp(r.norm)
      passes1 == Append(passes, [iteration |-> it + 1,
                                 centroids |-> cent1,
                                 centroidsOther |-> other1,
                                 counts |-> r.counts,
                                 cNorm |-> norm])
  IN IF KeepIterating(norm, it + 1, max)
     THEN ClusterLoop(points, cent1, other1, it + 1, max, passes1)
     ELSE [centroids |-> IF StealsOther(it + 1) THEN other1 ELSE cent1,
           iterations |-> it + 1,
           cNorm |-> norm,
           passes |-> passes1]

\* Cluster(data, clusters, centroids, true) with a guess of the right shape.
ClusterOn(points, guess, max) ==
  ClusterLoop(points, guess, <<>>, 0, max, <<>>)

\* The datasets and the centroid guesses of the calls.
Trials ==
  {[points |-> q, guess |-> g] :
     q \in UNION {[1..n -> Coordinates] : n \in 0..MaxN},
     g \in UNION {[1..k -> Coordinates] : k \in 1..MaxK}}

\* An engine with a cap on its iterations, and a dataset.
RerunInit ==
  /\ KMeansInit(1..MaxM)
  /\ trial \in Trials
  /\ first = NoRun
  /\ second = NoRun
  /\ TerminationIdle
  /\ HoeffdingIdle

\* The first call, with the caller's guess.
FirstCall ==
  /\ first = NoRun
  /\ first' = ClusterOn(trial.points, trial.guess, maxIterations)
  /\ UNCHANGED <<kmeansVars, terminationVars, hoeffdingVars, trial, second>>

\* The second call, with the centroids the first call returned as the guess.
SecondCall ==
  /\ first # NoRun
  /\ second = NoRun
  /\ second' = ClusterOn(trial.points, first.centroids, maxIterations)
  /\ UNCHANGED <<kmeansVars, terminationVars, hoeffdingVars, trial, first>>

RerunNext ==
  \/ FirstCall
  \/ SecondCall

RerunSpec == RerunInit /\ [][RerunNext]_vars

\* ------------------------------------------------------------------------
\* Cluster(data, clusters, assignments, centroids, initialAssignmentGuess,
\* initialCentroidGuess) on points of a line, called twice with the same
\* arguments.
\* ------------------------------------------------------------------------
\* counts.zeros(clusters); centroids.zeros(data.n_rows, clusters); and the
\* first n passes of  for (i ...) { centroids.col(assignments[i]) +=
\* data.col(i); counts[assignments[i]]++; }  for assignments a (cluster
\* indices from 0).  An index that is no cluster is an access out of
\* bounds: where the call goes on, the write is lost (stray = 0) or lands in
\* the column `stray`.
RECURSIVE Accumulated(_, _, _, _, _)
Accumulated(points, a, k, n, stray) ==
  IF n = 0
  THEN [centroids |-> [j \in 1..k |-> 0], counts |-> [j \in 1..k |-> 0]]
  ELSE LET before == Accumulated(points, a, k, n - 1, stray)
           col == IF a[n] < k THEN a[n] + 1 ELSE stray
       IN IF col = 0 THEN before
          ELSE [centroids |-> [before.centroids EXCEPT ![col] = @ + points[n]],
                counts |-> [before.counts EXCEPT ![col] = @ + 1]]

\* A variant that leaves the sums as they are.
Divided_none(sums) == sums.centroids

\* for (i ...) if (counts[i] != 0) centroids.col(i) /= counts[i];
Divided(sums) ==
  [j \in DOMAIN sums.counts |->
     IF sums.counts[j] # 0 THEN sums.centroids[j] \div sums.counts[j]
     ELSE sums.centroids[j]]

\* Lines 307-320 where every index is a cluster.
Means(points, a, k) == Divided(Accumulated(points, a, k, Len(points), 0))

\* A variant without centroids.zeros(data.n_rows, clusters): the sums start
\* from what the caller's matrix held.
MeansOfGuess_noZeros(points, a, k) ==
  {[ok |-> TRUE, centroids |-> Means(points, a, k)],
   [ok |-> TRUE,
    centroids |-> [j \in 1..k |-> Means(points, a, k)[j] + Spacing]]}

\* What lines 307-320 may leave in centroids: the means; with an index that
\* is no cluster, the call stops (an access out of bounds that is checked)
\* or goes on with the columns it has.
MeansOfGuess(points, a, k) ==
  IF InRange(a, k)
  THEN {[ok |-> TRUE, centroids |-> Means(points, a, k)]}
  ELSE {[ok |-> FALSE, centroids |-> Means(points, a, k)]} \cup
       {[ok |-> TRUE,
         centroids |-> Divided(Accumulated(points, a, k, Len(points), col))] :
          col \in 0..k}

\* What lines 196-212 may leave in centroids, for the assignments a of the
\* partitioner: the same loops.
MeansOfPartition(points, a, k) ==
  IF InRange(a, k)
  THEN {[ok |-> TRUE,
         centroids |-> Divided(Accumulated(points, a, k, Len(points), 0))]}
  ELSE {[ok |-> FALSE,
         centroids |-> Divided(Accumulated(points, a, k, Len(points), 0))]}
       \cup
       {[ok |-> TRUE,
         centroids |-> Divided(Accumulated(points, a, k, Len(points), col))] :
          col \in 0..k}

\* Lines 325-346: the final assignments.
FinalAssign(points, c) ==
  [n \in 1..Len(points) |-> NearestCentroid(points[n], c) - 1]

Crashed == [status |-> "crashed", centroids |-> <<>>, assignments |-> <<>>,
            passes |-> <<>>]

Finished(points, run) ==
  [status |-> "returned",
   centroids |-> run.centroids,
   assignments |-> FinalAssign(points, run.centroids),
   passes |-> run.passes]

\* What a call may return, for a guess of assignments or of centroids.
ClusterAssignmentsOn(points, k, kind, guess, max) ==
  IF kind = "assignments"
  THEN {IF r.ok THEN Finished(points, ClusterOn(points, r.centroids, max))
        ELSE Crashed : r \in MeansOfGuess(points, guess, k)}
  ELSE {Finished(points, ClusterOn(points, guess, max))}

\* The datasets and the guesses of the two calls.
TwinTrials ==
  {[points |-> q, clusters |-> k, kind |-> "centroids", guess |-> g] :
     q \in UNION {[1..n -> Coordinates] : n \in 0..MaxN},
     k \in 1..MaxK,
     g \in UNION {[1..kk -> Coordinates] : kk \in 1..MaxK}} \cup
  {[points |-> q, clusters |-> k, kind |-> "assignments", guess |-> g] :
     q \in UNION {[1..n -> Coordinates] : n \in 0..MaxN},
     k \in 1..MaxK,
     g \in UNION {[1..n -> 0..(MaxK - 1)] : n \in 0..MaxN}}

\* The guess has the shape that the checks of lines 172-183 and 302-305 ask.
WellShaped(t) ==
  IF t.kind = "centroids" THEN Len(t.guess) = t.clusters
  ELSE Len(t.guess) = Len(t.points)

TwinInit ==
  /\ KMeansInit(1..MaxM)
  /\ trial \in {t \in TwinTrials : WellShaped(t)}
  /\ first = NoRun
  /\ second = NoRun
  /\ TerminationIdle
  /\ HoeffdingIdle

CallOnce ==
  /\ first = NoRun
  /\ first' \in ClusterAssignmentsOn(trial.points, trial.clusters, trial.kind,
                                     trial.guess, maxIterations)
  /\ UNCHANGED <<kmeansVars, terminationVars, hoeffdingVars, trial, second>>

\* The same call again, with the arguments of the first call.
CallAgain ==
  /\ first # NoRun
  /\ second = NoRun
  /\ second' \in ClusterAssignmentsOn(trial.points, trial.clusters,
                                      trial.kind, trial.guess, maxIterations)
  /\ UNCHANGED <<kmeansVars, terminationVars, hoeffdingVars, trial, first>>

TwinNext ==
  \/ CallOnce
  \/ CallAgain

TwinSpec == TwinInit /\ [][TwinNext]_vars

\* ------------------------------------------------------------------------
\* The initial centroids of one set of assignments, derived once as for a
\* partitioner that gives assignments and once as for a caller's guess.
\* ------------------------------------------------------------------------
DeriveTrials ==
  {[points |-> q, clusters |-> k, assignments |-> a] :
     q \in UNION {[1..n -> Coordinates] : n \in 0..MaxN},
     k \in 0..MaxK,
     a \in UNION {[1..n -> 0..MaxK] : n \in 0..MaxN}}

\* What a derivation leaves.
Derived(r) ==
  IF r.ok THEN [status |-> "derived", centroids |-> r.centroids]
  ELSE [status |-> "crashed", centroids |-> <<>>]

\* One entry of the assignments for each point (the check of lines 302-305,
\* and what a partitioner gives).
DeriveInit ==
  /\ KMeansInit(1..MaxM)
  /\ trial \in {t \in DeriveTrials : Len(t.assignments) = Len(t.points)}
  /\ first = NoRun
  /\ second = NoRun
  /\ TerminationIdle
  /\ HoeffdingIdle

\* Lines 196-212, after partitioner.Cluster(data, clusters, assignments).
DeriveOfPartition ==
  /\ first = NoRun
  /\ \E r \in MeansOfPartition(trial.points, trial.assignments,
                                trial.clusters) : first' = Derived(r)
  /\ UNCHANGED <<kmeansVars, terminationVars, hoeffdingVars, trial, second>>

\* Lines 307-320, with initialAssignmentGuess.
DeriveOfGuess ==
  /\ second = NoRun
  /\ \E r \in MeansOfGuess(trial.points, trial.assignments,
                            trial.clusters) : second' = Derived(r)
  /\ UNCHANGED <<kmeansVars, terminationVars, hoeffdingVars, trial, first>>

DeriveNext ==
  \/ DeriveOfPartition
  \/ DeriveOfGuess

DeriveSpec == DeriveInit /\ [][DeriveNext]_vars

\* ------------------------------------------------------------------------
\* MaxIterationTermination (amf/termination_policies).
\* ------------------------------------------------------------------------
\* Calls of IsConverged on one object, and calls of the wrapped policy.
MaxCalls == MaxNonZero * MaxM + 1
MaxWrapped == 2 * MaxM + 1

\* The constructor: the members, and a warning for maxIterations = 0.
MaxIterationTermination(m) ==
  [policy |-> [maxIterations |-> m, iteration |-> 0],
   warned |-> IF m = 0 THEN {"will never terminate"} ELSE {}]

\* Initialize(V): there is nothing to do.
PolicyInitialize(p, V) == p

\* A variant that compares the counter before it adds one.
IsConverged_postIncrement(p) ==
  [policy |-> [p EXCEPT !.iteration = @ + 1],
   result |-> p.iteration >= p.maxIterations]

\* return (++iteration >= maxIterations);
IsConverged(p) ==
  [policy |-> [p EXCEPT !.iteration = @ + 1],
   result |-> p.iteration + 1 >= p.maxIterations]

\* What the termination policies leave alone.
NoCluster == <<kmeansVars, rerunVars, hoeffdingVars>>

PolicyInit ==
  /\ KMeansInit({0})
  /\ RerunIdle
  /\ \E m \in 0..MaxM :
       /\ tPolicy = MaxIterationTermination(m).policy
       /\ tWarned = MaxIterationTermination(m).warned
  /\ tAnswers = <<>>
  /\ tModified = FALSE
  /\ wrapper = Unset
  /\ wStatus = "raw"
  /\ wAnswers = <<>>
  /\ HoeffdingIdle

\* bool IsConverged(H, W)
PolicyIsConverged ==
  /\ Len(tAnswers) < MaxCalls
  /\ tPolicy' = IsConverged(tPolicy).policy
  /\ tAnswers' = Append(tAnswers, IsConverged(tPolicy).result)
  /\ UNCHANGED <<NoCluster, tWarned, tModified, wrapper, wStatus, wAnswers>>

\* size_t& Iteration(): the caller sets the counter.
SetIteration ==
  /\ \E v \in 0..MaxM : tPolicy' = [tPolicy EXCEPT !.iteration = v]
  /\ tModified' = TRUE
  /\ UNCHANGED <<NoCluster, tWarned, tAnswers, wrapper, wStatus, wAnswers>>

\* size_t& MaxIterations(): the caller sets the cap.
SetMaxIterations ==
  /\ \E v \in 0..MaxM : tPolicy' = [tPolicy EXCEPT !.maxIterations = v]
  /\ tModified' = TRUE
  /\ UNCHANGED <<NoCluster, tWarned, tAnswers, wrapper, wStatus, wAnswers>>

PolicyNext ==
  \/ PolicyIsConverged
  \/ SetIteration
  \/ SetMaxIterations

PolicySpec == PolicyInit /\ [][PolicyNext]_vars

\* ------------------------------------------------------------------------
\* CompleteIncrementalTermination around a MaxIterationTermination.
\* ------------------------------------------------------------------------
\* The matrices V, entry by entry.
Entries == {0, 1}
Matrices == [1..MaxNonZero -> Entries]

\* arma::accu(V != 0), and n_nonzero of a sparse V.
NonZeros(V) == Cardinality({j \in DOMAIN V : V[j] # 0})

\* a % b on size_t. A zero divisor is undefined: the call traps, or goes on
\* with some remainder.
Modulo(a, b) ==
  IF b = 0
    THEN {[trap |-> TRUE, v |-> 0], [trap |-> FALSE, v |-> 0],
          [trap |-> FALSE, v |-> 1]}
    ELSE {[trap |-> FALSE, v |-> a % b]}

\* The wrapper is constructed around a policy; its own members are not set.
WrapperInit ==
  /\ KMeansInit({0})
  /\ RerunIdle
  /\ \E m \in 0..MaxM :
       /\ tPolicy = MaxIterationTermination(m).policy
       /\ tWarned = MaxIterationTermination(m).warned
  /\ tAnswers = <<>>
  /\ tModified = FALSE
  /\ wrapper = Unset
  /\ wStatus = "raw"
  /\ wAnswers = <<>>
  /\ HoeffdingIdle

\* void Initialize(V), dense or sparse
WrapperInitialize ==
  /\ wStatus # "stopped"
  /\ \E V \in Matrices :
       /\ tPolicy' = PolicyInitialize(tPolicy, V)
       /\ wrapper' = [incrementalIndex |-> NonZeros(V), iteration |-> 0]
  /\ wStatus' = "ready"
  /\ wAnswers' = <<>>
  /\ UNCHANGED <<NoCluster, tWarned, tAnswers, tModified>>

\* bool IsConverged(W, H)
WrapperIsConverged ==
  /\ wStatus = "ready"
  /\ Len(wAnswers) < MaxCalls
  /\ Len(tAnswers) < MaxWrapped
  /\ wrapper' = [wrapper EXCEPT !.iteration = @ + 1]
  /\ \E r \in Modulo(wrapper.iteration + 1, wrapper.incrementalIndex) :
       IF r.trap
         THEN /\ wStatus' = "stopped"
              /\ UNCHANGED <<tPolicy, tAnswers, wAnswers>>
         ELSE IF r.v = 0
           THEN /\ tPolicy' = IsConverged(tPolicy).policy
                /\ tAnswers' = Append(tAnswers, IsConverged(tPolicy).result)
                /\ wAnswers' = Append(wAnswers,
                     [invoked |-> TRUE, inner |-> Len(tAnswers) + 1,
                      result |-> IsConverged(tPolicy).result])
                /\ UNCHANGED wStatus
           ELSE /\ wAnswers' = Append(wAnswers,
                     [invoked |-> FALSE, inner |-> 0, result |-> FALSE])
                /\ UNCHANGED <<tPolicy, tAnswers, wStatus>>
  /\ UNCHANGED <<NoCluster, tWarned, tModified>>

WrapperNext ==
  \/ WrapperInitialize
  \/ WrapperIsConverged

WrapperSpec == WrapperInit /\ [][WrapperNext]_vars

\* ------------------------------------------------------------------------
\* HoeffdingNumericSplit (hoeffding_trees/hoeffding_numeric_split_impl.hpp).
\* ------------------------------------------------------------------------
\* The classes of the labels, and the Train calls followed.
NumClasses == 2
MaxTrain == MaxBefore + 2

\* The values observed: multiples of Spacing, so that (max - min) / bins
\* is a whole number for up to four bins, as it is exact for such doubles.
Observations == {0, Spacing, 2 * Spacing}
Labels == 0..(NumClasses - 1)

\* The largest size_t (it stands for 2^64 - 1), and x - 1 on size_t.
SizeMax == 2147483647
Minus1(x) == IF x = 0 THEN SizeMax ELSE x - 1

\* A vector of n elements can be allocated.
CanAllocate(n) == n < SizeMax

\* arma::zeros<arma::Mat<size_t>>(numClasses, bins)
ZeroStatistics(numClasses, b) == [c \in 1..numClasses |-> [j \in 1..b |-> 0]]

\* The constructor, lines 31-44.
HoeffdingNumericSplit(numClasses, b, before) ==
  [observations |-> [j \in 1..Minus1(before) |-> 0],
   labels |-> [j \in 1..Minus1(before) |-> 0],
   bins |-> b,
   observationsBeforeBinning |-> before,
   samplesSeen |-> 0,
   splitPoints |-> <<>>,
   sufficientStatistics |-> ZeroStatistics(numClasses, b)]

\* The other parts stay as they are.
NoSplit == <<kmeansVars, rerunVars, terminationVars>>

HoeffdingInit ==
  /\ KMeansInit({0})
  /\ RerunIdle
  /\ TerminationIdle
  /\ \E b \in 0..MaxBins, before \in 1..MaxBefore :
       LET new == HoeffdingNumericSplit(NumClasses, b, before)
       IN /\ observations = new.observations
          /\ labels = new.labels
          /\ bins = new.bins
          /\ observationsBeforeBinning = new.observationsBeforeBinning
          /\ samplesSeen = new.samplesSeen
          /\ splitPoints = new.splitPoints
          /\ sufficientStatistics = new.sufficientStatistics
  /\ trained = <<>>
  /\ thrown = FALSE
  /\ returned = NoReturn

\* Lines 77-85: min and max of the value and the first n kept observations.
RECURSIVE MinMax(_, _, _)
MinMax(value, obs, n) ==
  IF n = 0 THEN [min |-> value, max |-> value]
  ELSE LET m == MinMax(value, obs, n - 1)
       IN IF obs[n] < m.min THEN [m EXCEPT !.min = obs[n]]
          ELSE IF obs[n] > m.max THEN [m EXCEPT !.max = obs[n]]
          ELSE m

\* Lines 90-92: the split points between min and max, without the ends.
SplitPoints(m, b) ==
  LET binWidth == (m.max - m.min) \div b
  IN [j \in 1..Minus1(b) |-> m.min + j * binWidth]

\* A variant of the search that goes on over a split point equal to the
\* value.
RECURSIVE Bin_orEqual(_, _, _, _)
Bin_orEqual(value, points, b, bin) ==
  IF bin < Minus1(b) /\ value >= points[bin + 1]
  THEN Bin_orEqual(value, points, b, bin + 1)
  ELSE bin

\* size_t bin = 0; while (bin < bins - 1 && value > splitPoints[bin]) ++bin;
RECURSIVE Bin(_, _, _, _)
Bin(value, points, b, bin) ==
  IF bin < Minus1(b) /\ value > points[bin + 1]
  THEN Bin(value, points, b, bin + 1)
  ELSE bin

\* sufficientStatistics(label, bin)++
Counted(stats, label, bin) ==
  [stats EXCEPT ![label + 1][bin + 1] = @ + 1]

\* A variant that forgets the kept observations.
CountedKept_none(stats, obs, labs, points, b, n) == stats

\* Lines 96-104: the first n kept observations go into the statistics.
RECURSIVE CountedKept(_, _, _, _, _, _)
CountedKept(stats, obs, labs, points, b, n) ==
  IF n = 0 THEN stats
  ELSE Counted(CountedKept(stats, obs, labs, points, b, n - 1),
               labs[n], Bin(obs[n], points, b, 0))

\* if (samplesSeen < observationsBeforeBinning - 1)
Keeps(seen, before) == seen < Minus1(before)

\* void Train(value, label)
Train ==
  /\ Len(trained) < MaxTrain
  /\ \E value \in Observations, label \in Labels :
       /\ trained' = Append(trained, [value |-> value, label |-> label])
       /\ IF Keeps(samplesSeen, observationsBeforeBinning)
          THEN /\ observations' = [observations EXCEPT ![samplesSeen + 1] = value]
               /\ labels' = [labels EXCEPT ![samplesSeen + 1] = label]
               /\ samplesSeen' = samplesSeen + 1
               /\ thrown' = FALSE
               /\ UNCHANGED <<splitPoints, sufficientStatistics>>
          ELSE IF samplesSeen = Minus1(observationsBeforeBinning)
          THEN IF ~CanAllocate(Minus1(bins))
               THEN \* splitPoints.resize(bins - 1) throws
                    /\ thrown' = TRUE
                    /\ UNCHANGED <<observations, labels, samplesSeen,
                                   splitPoints, sufficientStatistics>>
               ELSE LET m == MinMax(value, observations,
                                    Minus1(observationsBeforeBinning))
                        points == SplitPoints(m, bins)
                    IN /\ splitPoints' = points
                       /\ samplesSeen' = samplesSeen + 1
                       /\ sufficientStatistics' =
                            Counted(CountedKept(sufficientStatistics,
                                      observations, labels, points, bins,
                                      Minus1(observationsBeforeBinning)),
                                    label, Bin(value, points, bins, 0))
                       /\ thrown' = FALSE
                       /\ UNCHANGED <<observations, labels>>
          ELSE /\ sufficientStatistics' =
                    Counted(sufficientStatistics, label,
                            Bin(value, splitPoints, bins, 0))
               /\ thrown' = FALSE
               /\ UNCHANGED <<observations, labels, samplesSeen, splitPoints>>
  /\ returned' = NoReturn
  /\ UNCHANGED <<NoSplit, bins, observationsBeforeBinning>>

\* A variant of the test that takes the bins for made from the start.
NotBinned_never(seen, before) == FALSE

\* if (samplesSeen < observationsBeforeBinning)
NotBinned(seen, before) == seen < before

\* The doubles given back by EvaluateFitnessFunction: 0.0, or what
\* FitnessFunction::Evaluate makes of the statistics.
ZeroFitness == [evaluated |-> FALSE, of |-> <<>>]
Evaluate(stats) == [evaluated |-> TRUE, of |-> stats]

\* void EvaluateFitnessFunction(bestFitness, secondBestFitness) const
EvaluateFitnessFunction ==
  /\ returned' =
       [call |-> "EvaluateFitnessFunction",
        secondBestFitness |-> ZeroFitness,
        bestFitness |->
          IF NotBinned(samplesSeen, observationsBeforeBinning)
          THEN ZeroFitness
          ELSE Evaluate(sufficientStatistics)]
  /\ thrown' = FALSE
  /\ UNCHANGED <<NoSplit, split, trained>>

\* A variant that takes the last of several largest elements.
RECURSIVE IndexMaxLastTo(_, _)
IndexMaxLastTo(v, n) ==
  IF n = 1 THEN 1
  ELSE LET best == IndexMaxLastTo(v, n - 1)
       IN IF v[n] >= v[best] THEN n ELSE best

IndexMax_last(v) == IndexMaxLastTo(v, Len(v)) - 1

\* v.max(index_of_max_val) of a vector with elements: the largest element
\* is looked for from the front, and a later one must be larger to win.
RECURSIVE IndexMaxTo(_, _)
IndexMaxTo(v, n) ==
  IF n = 1 THEN 1
  ELSE LET best == IndexMaxTo(v, n - 1)
       IN IF v[n] > v[best] THEN n ELSE best

\* The index from 0, as the code has it.
IndexMax(v) == IndexMaxTo(v, Len(v)) - 1

\* sufficientStatistics.unsafe_col(i), i from 1
Column(stats, j) == [c \in 1..Len(stats) |-> stats[c][j]]

\* void Split(childMajorities, splitInfo) const
Split ==
  /\ returned' =
       [call |-> "Split",
        childMajorities |->
          [j \in 1..bins |-> IndexMax(Column(sufficientStatistics, j))],
        splitInfo |-> splitPoints]
  /\ thrown' = FALSE
  /\ UNCHANGED <<NoSplit, split, trained>>

\* classes.zeros(); for (i < samplesSeen) classes[labels[i]]++;
RECURSIVE Classes(_, _, _)
Classes(numClasses, labs, n) ==
  IF n = 0 THEN [c \in 1..numClasses |-> 0]
  ELSE [Classes(numClasses, labs, n - 1) EXCEPT ![labs[n] + 1] = @ + 1]

\* arma::sum(sufficientStatistics, 1): the sum of each row.
RECURSIVE SumOf(_, _)
SumOf(row, n) == IF n = 0 THEN 0 ELSE row[n] + SumOf(row, n - 1)

ClassCounts(stats) == [c \in 1..Len(stats) |-> SumOf(stats[c], Len(stats[c]))]

\* size_t MajorityClass() const
MajorityClass ==
  /\ returned' =
       [call |-> "MajorityClass",
        class |->
          IF NotBinned(samplesSeen, observationsBeforeBinning)
          THEN IndexMax(Classes(Len(sufficientStatistics), labels,
                                samplesSeen))
          ELSE IndexMax(ClassCounts(sufficientStatistics))]
  /\ thrown' = FALSE
  /\ UNCHANGED <<NoSplit, split, trained>>

HoeffdingNext ==
  \/ Train
  \/ EvaluateFitnessFunction
  \/ Split
  \/ MajorityClass

HoeffdingSpec == HoeffdingInit /\ [][HoeffdingNext]_vars

\* ------------------------------------------------------------------------
\* Positions of a call.
\* ------------------------------------------------------------------------
\* The convergence loop has been left.
LoopLeft == pc \in {"steal", "return"}
\* A pass of the loop is over and the next one is about to start.
LoopContinued == pc = "iterate" /\ iteration > 0
\* Cluster(data, clusters, centroids, initialGuess) has returned.
Returned == pc \in {"assign", "asserted", "done"}
\* The call has not passed the checks of its initial guess (yet).
BeforeInit == pc \in {"guess", "validate", "fatal"}
\* The call stopped on an access out of bounds after its validation.
CrashedAfterValidation == pc = "crashed" /\ partitionerCalls = 1
\* Lines 163-183 have been executed.
ValidationDone ==
  \/ pc \in {"init", "iterate", "empty", "next", "test", "steal", "return",
             "assign", "asserted", "done"}
  \/ pc = "fatal" /\ fatal \in {"cols", "rows"}
  \/ CrashedAfterValidation
\* The last residual the Lloyd step returned was NaN or infinite.
Anomaly == isnan(rawNorm) \/ isinf(rawNorm)

\* ------------------------------------------------------------------------
\* C1: with maxIterations = M > 0 the iteration counter never exceeds M and
\* Iterate is called at most M times in a call, whatever the residuals.
\* ------------------------------------------------------------------------
C1_IterationBound ==
  maxIterations > 0 =>
    /\ iteration <= maxIterations
    /\ iterateCalls <= maxIterations

\* A call ends at the cap with a residual above the threshold.
C1_Witness ==
  /\ pc = "steal"
  /\ maxIterations = MaxM
  /\ iteration = maxIterations
  /\ iterateCalls = maxIterations
  /\ Gt(cNorm, Threshold)

\* ------------------------------------------------------------------------
\* C2: the loop is left after a pass exactly when the clamped residual of
\* that pass is <= 1e-5 or the counter equals maxIterations; with
\* maxIterations = 0 only a residual <= 1e-5 ends the loop.
\* ------------------------------------------------------------------------
C2_LoopExit ==
  /\ LoopLeft => (Le(cNorm, Threshold) \/ iteration = maxIterations)
  /\ LoopContinued => (~Le(cNorm, Threshold) /\ iteration # maxIterations)
  /\ (LoopLeft /\ maxIterations = 0) => Le(cNorm, Threshold)

\* Without a cap, the loop goes on past the first passes and ends on a small
\* residual.
C2_Witness ==
  /\ pc = "steal"
  /\ maxIterations = 0
  /\ iteration >= 2
  /\ Le(cNorm, Threshold)

C4_AnomalyClamped ==
  ((pc = "test" \/ LoopLeft \/ LoopContinued) /\ Anomaly) =>
    /\ cNorm = Sentinel
    /\ Gt(cNorm, Threshold)
    /\ ~Le(cNorm, Threshold)
    /\ LoopLeft => iteration = maxIterations
    /\ fatal = "none"

\* The loop goes on after an infinite residual.
C4_Witness == LoopContinued /\ isinf(rawNorm) /\ cNorm = Sentinel

\* ------------------------------------------------------------------------
\* C5: the centroids returned are the matrix the last Lloyd step wrote,
\* with the changes of the empty-cluster policy in that pass, after an odd
\* as after an even number of passes.
\* ------------------------------------------------------------------------
C5_ReturnsLastWritten ==
  /\ pc = "return" => centroids.val = [by |-> "new", ec |-> reseeds]
  /\ Returned => centroids.val.by = "new"

\* A call returns after an even number of passes, the policy having changed
\* the new centroids in the last one.
C5_Witness ==
  /\ pc = "return"
  /\ iteration % 2 = 0
  /\ reseeds = 1
  /\ centroids.val.ec = 1

\* ------------------------------------------------------------------------
\* C6: after a call that returns assignments, the assignment vector has
\* length N and every entry lies in [0, K).
\* ------------------------------------------------------------------------
C6_AssignmentsValid ==
  (pc = "done" /\ entry = "assignments") =>
    /\ Len(assignments) = data.n_cols
    /\ \A j \in 1..Len(assignments) : assignments[j] \in 0..(clusters - 1)

\* ------------------------------------------------------------------------
\* C7: the final pass gives each point the index of a centroid at minimal
\* distance, the lowest index among those at that distance.
\* ------------------------------------------------------------------------
\* The point assigned last got index a, the distances being d.
ClosestLowest(d, a) ==
  /\ a < Len(d)
  /\ \A j \in 1..Len(d) : ~Lt(d[j], d[a + 1])
  /\ \A j \in 1..a : d[j] # d[a + 1]

C7_ClosestCentroid ==
  (pc = "assign" /\ i > 0) => ClosestLowest(dist, assignments[i])

\* ------------------------------------------------------------------------
\* C8, as stated: a centroid guess of a wrong shape ends the call with a
\* fatal error before the partitioner, the Lloyd step or the policy is
\* called, the caller's centroids and assignments being unchanged.
\* ------------------------------------------------------------------------
FatalBeforeAnyWork ==
  /\ BeforeInit
  /\ partitionerCalls = 0
  /\ iterateCalls = 0
  /\ emptyCalls = 0
  /\ centroids = centroidsIn
  /\ assignments = assignmentsIn

C8_Original == wrongCentroids => FatalBeforeAnyWork

\* C8, amended: the same, unless the call also gives an initial assignment
\* guess of length N (the centroids are then computed from the assignments
\* and the centroid guess is not looked at).
C8_WrongCentroidGuess ==
  (wrongCentroids /\ (~initialAssignmentGuess \/ wrongAssignments)) =>
    FatalBeforeAnyWork

\* The assignments overload, given centroids of a wrong dimensionality only.
C8_Witness ==
  /\ pc = "fatal"
  /\ fatal = "rows"
  /\ entry = "assignments"
  /\ wrongCentroids
  /\ ~initialAssignmentGuess

\* ------------------------------------------------------------------------
\* C9: an assignment guess whose length is not N ends the call with a fatal
\* error before any centroid is computed from it and before any iteration.
\* ------------------------------------------------------------------------
C9_WrongAssignmentGuess ==
  wrongAssignments =>
    /\ pc \in {"guess", "fatal"}
    /\ pc = "fatal" => fatal = "assignments"
    /\ derivations = 0
    /\ partitionerCalls = 0
    /\ iterateCalls = 0
    /\ centroids = centroidsIn

C9_Witness ==
  /\ pc = "fatal"
  /\ fatal = "assignments"
  /\ wrongAssignments
  /\ Len(assignments) > data.n_cols

\* ------------------------------------------------------------------------
\* C10, as stated: K = 0, K > N and maxIterations = 0 each cause a warning,
\* and validation does not abort the run on their account.
\* ------------------------------------------------------------------------
Degenerate ==
  clusters = 0 \/ clusters > data.n_cols \/ maxIterations = 0

Aborted == pc \in {"fatal", "crashed", "asserted"}

C11_AbortsOnlyOnShape ==
  Aborted => (pc = "fatal" /\ (wrongCentroids \/ wrongAssignments))

\* ------------------------------------------------------------------------
\* C12, as stated: in every pass of the loop EmptyCluster is called exactly
\* once for each cluster that is empty in that pass and never for another
\* one, however the earlier calls of the pass changed the counts.
\* ------------------------------------------------------------------------
C12_Original ==
  pc = "next" =>
    \A j \in 1..clusters : called[j] = IF j \in emptied THEN 1 ELSE 0

\* C12, amended: in every pass EmptyCluster is called exactly once for each
\* cluster whose count is zero when the for loop comes to it and never for
\* another one; a cluster that an EmptyCluster call of the pass leaves empty
\* after the loop has passed it gets no call in that pass.
C12_OncePerEmptyAtVisit ==
  pc \in {"empty", "next"} =>
    /\ \A j \in 1..clusters : called[j] = IF j \in atVisit THEN 1 ELSE 0
    /\ atVisit \subseteq 1..i
    /\ atVisit \subseteq emptied
    /\ pc = "next" => i = clusters

\* A pass ends after a call for an empty cluster, and without a call for
\* the cluster that this call left empty.
C12_Witness ==
  /\ pc = "next"
  /\ atVisit # {}
  /\ \A j \in atVisit : called[j] = 1
  /\ emptied \ atVisit # {}

\* ------------------------------------------------------------------------
\* C13, as stated: at the end of every completed pass of the loop (after the
\* Lloyd step and all EmptyCluster calls) the counts of the clusters are
\* non-negative and sum to N.
\* ------------------------------------------------------------------------
\* A pass of the loop is over, and no other has begun.
PassCompleted ==
  \/ pc \in {"next", "test", "steal", "return"}
  \/ LoopContinued

CountsSumToN ==
  /\ \A j \in 1..clusters : counts[j] >= 0
  /\ SumTo(counts, clusters) = data.n_cols

JustWritten ==
  IF pc \in {"empty", "next"}
  THEN IF WritesOther(iteration) THEN centroidsOther ELSE centroids
  ELSE IF pc \in {"test", "steal", "iterate"}
       THEN IF WritesOther(iteration - 1) THEN centroidsOther ELSE centroids
       ELSE centroids

HasShape(m) == m.n_cols = clusters /\ m.n_rows = data.n_rows

C14_CentroidShape ==
  (PassCompleted \/ pc = "empty" \/ Returned) => HasShape(JustWritten)

\* A call with a centroid guess of the right shape has gone twice through
\* the loop.
C14_Witness ==
  /\ pc = "steal"
  /\ entry = "centroids"
  /\ initialGuess
  /\ clusters = MaxK
  /\ iteration >= 2
  /\ HasShape(JustWritten)

\* ------------------------------------------------------------------------
\* C15, as stated: a second call with the centroids of the first call as
\* the guess makes at most one pass of the loop and leaves it with a
\* residual <= 1e-5, whether the first call ended by convergence or at the
\* cap.
\* ------------------------------------------------------------------------
C15_Original ==
  second # NoRun =>
    /\ second.iterations <= 1
    /\ Le(second.cNorm, Threshold)

\* C15, amended: if the first call ended by convergence, the second call
\* makes one pass of the loop, leaves it with a residual <= 1e-5 and
\* returns the same centroids.
C15_RerunAfterConvergence ==
  (second # NoRun /\ Le(first.cNorm, Threshold)) =>
    /\ second.iterations = 1
    /\ Le(second.cNorm, Threshold)
    /\ second.centroids = first.centroids

\* The first call moved the centroids of the guess and ended by convergence
\* in a later pass; the second call has returned after one pass.
C15_Witness ==
  /\ second # NoRun
  /\ Len(trial.points) = MaxN
  /\ Len(trial.guess) = MaxK
  /\ Le(first.cNorm, Threshold)
  /\ first.iterations >= 2
  /\ first.centroids # trial.guess
  /\ second.iterations = 1

\* ------------------------------------------------------------------------
\* C16, as stated: two calls with the same dataset, K, maxIterations and
\* initial guess, and deterministic policies, go through the same states
\* (iteration, centroid matrices, counts, residual) at the end of each pass
\* and return the same centroids and assignments.
\* ------------------------------------------------------------------------
BothCalled == first # NoRun /\ second # NoRun

C17_Frame ==
  [][/\ maxIterations' = maxIterations
     /\ pc # "idle" => data' = data]_vars

\* A call of the assignments overload has gone through the loop up to the
\* cap and through the final assignments.
C17_Witness ==
  /\ pc = "done"
  /\ entry = "assignments"
  /\ maxIterations = MaxM
  /\ data.n_cols = MaxN
  /\ \A j \in 1..data.n_cols : assignments[j] >= 0

\* ------------------------------------------------------------------------
\* C18: for a MaxIterationTermination constructed with maxIterations = 0,
\* IsConverged never returns true, however many times it is called.
\* ------------------------------------------------------------------------
C18_NeverConverges ==
  (tPolicy.maxIterations = 0 /\ ~tModified) =>
    \A k \in 1..Len(tAnswers) : tAnswers[k] = FALSE

\* ------------------------------------------------------------------------
\* C19: for a MaxIterationTermination constructed with maxIterations =
\* M > 0 and not modified otherwise, the first M - 1 calls of IsConverged
\* return false, call M and every later call return true, and Iteration()
\* is the number of calls made so far.
\* ------------------------------------------------------------------------
C19_ConvergesAtM ==
  (tPolicy.maxIterations > 0 /\ ~tModified) =>
    /\ \A k \in 1..Len(tAnswers) :
         tAnswers[k] = (k >= tPolicy.maxIterations)
    /\ tPolicy.iteration = Len(tAnswers)

\* The calls went on beyond the cap.
C19_Witness ==
  /\ tPolicy.maxIterations = MaxM
  /\ ~tModified
  /\ Len(tAnswers) > MaxM
  /\ tAnswers[MaxM - 1] = FALSE
  /\ tAnswers[Len(tAnswers)] = TRUE

\* ------------------------------------------------------------------------
\* C20: after CompleteIncrementalTermination::Initialize(V) with n non-zero
\* entries in V, the calls of the wrapper's IsConverged whose ordinal is a
\* multiple of n, and only they, invoke the wrapped policy's IsConverged,
\* and return what it returned; every other call returns false. This holds
\* for every V, n = 0 included.
\* ------------------------------------------------------------------------
IsMultiple(k, n) == \E q \in 0..k : k = q * n

C20_EveryNth ==
  wStatus # "raw" =>
    /\ wStatus = "ready"
    /\ \A k \in 1..Len(wAnswers) :
         IF IsMultiple(k, wrapper.incrementalIndex)
           THEN /\ wAnswers[k].invoked
                /\ wAnswers[k].result = tAnswers[wAnswers[k].inner]
           ELSE /\ ~wAnswers[k].invoked
                /\ wAnswers[k].result = FALSE

\* ------------------------------------------------------------------------
\* C21: every Lloyd step reads the matrix the step before it wrote (the
\* centroids argument, holding the initial centroids, in the first pass)
\* and writes the other one; every EmptyCluster call of a pass gets the
\* matrix the step read as the old centroids, the matrix the step wrote as
\* the new centroids, and the iteration counter before its increment.
\* ------------------------------------------------------------------------
Buffers == {"centroids", "centroidsOther"}

\* The content of a matrix, by its name.
Buffer(name) == IF name = "centroids" THEN centroids ELSE centroidsOther

C21_Buffers ==
  [][/\ iterateCalls' = iterateCalls + 1 =>
        /\ {stepArgs'.read, stepArgs'.wrote} = Buffers
        /\ stepArgs'.read =
             IF iterateCalls = 0 THEN "centroids" ELSE stepArgs.wrote
        /\ iterateCalls > 0 => Buffer(stepArgs'.read).val.by = "new"
     /\ \A a \in policyArgs' :
          /\ a.old = stepArgs'.read
          /\ a.new = stepArgs'.wrote
          /\ a.iteration = iterateCalls' - 1]_vars

\* A second pass, with a call of the policy.
C21_Witness ==
  /\ pc = "next"
  /\ iterateCalls >= 2
  /\ stepArgs = [read |-> "centroidsOther", wrote |-> "centroids"]
  /\ policyArgs # {}

\* ------------------------------------------------------------------------
\* C22: initial centroids derived from assignments (of a partitioner, or of
\* the caller's guess) are, cluster by cluster, the mean of exactly the
\* points assigned to the cluster, and zero for a cluster without points;
\* the two derivations give the same centroids for the same assignments.
\* As stated, for any assignments; as it holds, for assignments whose
\* every index is below the number of clusters.
\* ------------------------------------------------------------------------
\* The points assigned to cluster j (from 1) and their mean.
AssignedTo(t, j) == {n \in 1..Len(t.points) : t.assignments[n] = j - 1}

MeanOfAssigned(t, j) ==
  IF AssignedTo(t, j) = {} THEN 0
  ELSE SumOfCluster(t.points, [n \in 1..Len(t.points) |->
                                 t.assignments[n] + 1], j, Len(t.points))
         \div Cardinality(AssignedTo(t, j))

IsMeans(run) ==
  /\ run.status = "derived"
  /\ Len(run.centroids) = trial.clusters
  /\ \A j \in 1..trial.clusters : run.centroids[j] = MeanOfAssigned(trial, j)

MeansDerived ==
  /\ first # NoRun => IsMeans(first)
  /\ second # NoRun => IsMeans(second)
  /\ (first # NoRun /\ second # NoRun) => first = second

C22_Original == MeansDerived

C22_MeansOfAssigned ==
  InRange(trial.assignments, trial.clusters) => MeansDerived

\* Both derivations are done, for a cluster of several distinct points and
\* a cluster without a point.
C22_Witness ==
  /\ first # NoRun
  /\ second # NoRun
  /\ trial.clusters = MaxK
  /\ Len(trial.points) = MaxN
  /\ trial.points[1] # trial.points[2]
  /\ AssignedTo(trial, 1) = 1..MaxN
  /\ first.centroids[1] # 0

\* ------------------------------------------------------------------------
\* C23: a call of Cluster without an initial guess (of centroids or of
\* assignments) invokes the partitioner exactly once, a call with a guess
\* never; the partitioner is asked for exactly one of centroids and
\* assignments, and centroids are averaged from its output only when it
\* gave assignments.
\* ------------------------------------------------------------------------
\* The caller gave a guess to the overload it called.
GuessSupplied ==
  IF entry = "assignments"
  THEN initialAssignmentGuess \/ initialCentroidGuess
  ELSE initialGuess

C23_PartitionerOnce ==
  [][/\ partitionerCalls' > partitionerCalls =>
        /\ pc = "init"
        /\ ~GuessSupplied
        /\ partitionerCalls = 0
        /\ partitionerCalls' = 1
     /\ partitionerCalls' < partitionerCalls => pc = "return"
     /\ pc = "return" =>
        /\ partitionerCalls = IF GuessSupplied THEN 0 ELSE 1
        /\ Cardinality(shapes) = partitionerCalls
        /\ shapes = {"centroids"} => derivations = 0
        /\ shapes = {"assignments"} => derivations = 1
        /\ shapes = {} =>
             derivations = IF entry = "assignments" /\ initialAssignmentGuess
                           THEN 1 ELSE 0]_vars

\* A call without a guess is about to return, after a partitioner that
\* gave assignments.
C23_Witness ==
  /\ pc = "return"
  /\ entry = "assignments"
  /\ ~GuessSupplied
  /\ partitionerCalls = 1
  /\ shapes = {"assignments"}
  /\ derivations = 1
  /\ clusters = MaxK
  /\ data.n_cols = MaxN

\* ------------------------------------------------------------------------
\* C24: a call that passed validation has run the Lloyd step at least once
\* when it returns, whatever the initial centroids; and the residual that
\* the loop test compares with the threshold is what the Lloyd step of the
\* same pass returned, clamped if it was NaN or infinite, whatever the
\* empty-cluster policy did in that pass.
\* ------------------------------------------------------------------------
Clamped(x) == IF x \in {NaN, PosInf, NegInf} THEN Sentinel ELSE x

C24_StepBeforeTest ==
  /\ pc \in {"steal", "return"} => iterateCalls >= 1
  /\ pc \in {"empty", "next"} => (iterateCalls = iteration + 1 /\ cNorm = rawNorm)
  /\ pc = "test" =>
       /\ iterateCalls = iteration
       /\ rawNorm \in Residuals
       /\ cNorm = Clamped(rawNorm)

\* The first pass of a call with a guess ends below the threshold, after
\* the policy changed the new centroids.
C24_Witness ==
  /\ pc = "test"
  /\ initialGuess
  /\ iteration = 1
  /\ emptyCalls >= 1
  /\ reseeds = 1
  /\ ~Gt(cNorm, Threshold)

\* ------------------------------------------------------------------------
\* C25: Initialize(V) on a CompleteIncrementalTermination around a
\* MaxIterationTermination(M) makes it behave as new, also after it has
\* converged: of the calls of IsConverged that follow, the first n * M - 1
\* return false and call n * M returns true (n the number of non-zero
\* entries of V, n > 0, M > 0).
\* ------------------------------------------------------------------------
C25_FreshAfterInitialize ==
  (/\ wStatus = "ready"
   /\ wrapper.incrementalIndex > 0
   /\ tPolicy.maxIterations > 0) =>
    \A k \in 1..Len(wAnswers) :
      k <= wrapper.incrementalIndex * tPolicy.maxIterations =>
        wAnswers[k].result =
          (k = wrapper.incrementalIndex * tPolicy.maxIterations)

\* ------------------------------------------------------------------------
\* C26: for a HoeffdingNumericSplit with observationsBeforeBinning = B >= 1,
\* after t Train calls samplesSeen is min(t, B); if t < B the statistics
\* are all zero and the t observations and labels are kept in call order;
\* if t >= B the statistics sum to t, and row c sums to the number of Train
\* calls with label c.  As stated, for any bins; as it holds, for
\* bins >= 1.
\* ------------------------------------------------------------------------
\* The Train calls made with label c.
CallsWith(c) == {k \in 1..Len(trained) : trained[k].label = c}

EverySampleOnce ==
  LET t == Len(trained)
      B == observationsBeforeBinning
      rows == ClassCounts(sufficientStatistics)
  IN /\ samplesSeen = IF t < B THEN t ELSE B
     /\ t < B =>
          /\ sufficientStatistics = ZeroStatistics(NumClasses, bins)
          /\ \A k \in 1..t : /\ observations[k] = trained[k].value
                              /\ labels[k] = trained[k].label
     /\ t >= B =>
          /\ SumOf(rows, Len(rows)) = t
          /\ \A c \in Labels : rows[c + 1] = Cardinality(CallsWith(c))

MostCalled ==
  CHOOSE c \in Labels :
    /\ \A d \in Labels : Cardinality(CallsWith(d)) <= Cardinality(CallsWith(c))
    /\ \A d \in Labels :
         d < c => Cardinality(CallsWith(d)) < Cardinality(CallsWith(c))

MajorityIsMostCalled ==
  returned.call = "MajorityClass" => returned.class = MostCalled

C27_Original == MajorityIsMostCalled

C27_MajorityClass == bins >= 1 => MajorityIsMostCalled

\* The bins are made, two classes have as many calls each, and
\* MajorityClass has answered.
C27_Witness ==
  /\ returned.call = "MajorityClass"
  /\ bins = MaxBins
  /\ observationsBeforeBinning = MaxBefore
  /\ samplesSeen = observationsBeforeBinning
  /\ Len(trained) > observationsBeforeBinning
  /\ Cardinality(CallsWith(0)) = Cardinality(CallsWith(1))

\* ------------------------------------------------------------------------
\* C28: EvaluateFitnessFunction always gives 0 as secondBestFitness; it
\* gives 0 as bestFitness while fewer than observationsBeforeBinning
\* samples have been trained, and the fitness of the statistics exactly
\* when the bins have been made; the call leaves the split as it is.
\* ------------------------------------------------------------------------
\* The bins have been made: by the Train call number
\* observationsBeforeBinning, where bins can be made at all.
BinsMade == bins >= 1 /\ Len(trained) >= observationsBeforeBinning

C28_Fitness ==
  [][returned'.call = "EvaluateFitnessFunction" =>
       /\ returned'.secondBestFitness = ZeroFitness
       /\ Len(trained) < observationsBeforeBinning =>
            returned'.bestFitness = ZeroFitness
       /\ returned'.bestFitness =
            IF BinsMade THEN Evaluate(sufficientStatistics) ELSE ZeroFitness
       /\ UNCHANGED <<split, trained>>]_vars

\* The fitness of the statistics has been given, and then 0 was not.
C28_Witness ==
  /\ returned.call = "EvaluateFitnessFunction"
  /\ returned.bestFitness = Evaluate(sufficientStatistics)
  /\ bins = MaxBins
  /\ observationsBeforeBinning = MaxBefore
  /\ Len(trained) = observationsBeforeBinning

\* ------------------------------------------------------------------------
\* C29: once the bins have been made (bins >= 1) there are exactly
\* bins - 1 split points, in non-decreasing order, and later Train calls
\* leave them as they are; every trained value is counted in the bin whose
\* index is the number of split points strictly less than the value, an
\* index in [0, bins); Split gives one child majority for each bin, the
\* class of the lowest index among those with the largest count in the bin.
\* ------------------------------------------------------------------------
\* The number of split points strictly less than the value.
PointsBelow(value) ==
  Cardinality({p \in 1..Len(splitPoints) : splitPoints[p] < value})

\* The Train calls with the label whose value has b split points below it.
CallsInBin(c, b) == {k \in CallsWith(c) : PointsBelow(trained[k].value) = b}

\* The class of the lowest index among those with the largest count in
\* the bin (bins from 0).
LowestLargest(b) ==
  CHOOSE c \in Labels :
    /\ \A d \in Labels :
         sufficientStatistics[d + 1][b + 1] <= sufficientStatistics[c + 1][b + 1]
    /\ \A d \in Labels :
         d < c =>
           sufficientStatistics[d + 1][b + 1] < sufficientStatistics[c + 1][b + 1]

BinsAsMade ==
  BinsMade =>
    /\ Len(splitPoints) = bins - 1
    /\ \A p \in 1..(bins - 2) : splitPoints[p] <= splitPoints[p + 1]
    /\ \A k \in 1..Len(trained) :
         PointsBelow(trained[k].value) \in 0..(bins - 1)
    /\ \A c \in Labels, b \in 0..(bins - 1) :
         sufficientStatistics[c + 1][b + 1] = Cardinality(CallsInBin(c, b))

OneMajorityEachBin ==
  (bins >= 1 /\ returned.call = "Split") =>
    /\ Len(returned.childMajorities) = bins
    /\ \A b \in 0..(bins - 1) :
         returned.childMajorities[b + 1] = LowestLargest(b)

====
